---------------------------- MODULE Spec2Model ----------------------------
(***************************************************************************)
(* A model of scripts/process_vrchat_analytics.py: the fold of raw world   *)
(* records into per-world accumulators (aggregate_world_data), the         *)
(* filter / metric derivation / ranking (calculate_averages_and_sort), and *)
(* the rows handed to the CSV writer (write_csv_output).                   *)
(*                                                                         *)
(* JSON values are tagged records.  Text is a sequence of one-character    *)
(* strings, so that trimming, joining and parsing are computed.  Floats    *)
(* that the program rounds to two decimals are carried in hundredths.      *)
(***************************************************************************)
EXTENDS Integers, Sequences, FiniteSets, TLC

(***************************************************************************)
(* JSON values as json.load produces them                                  *)
(***************************************************************************)
StrV(t)    == [k |-> "str", s |-> t]
IntV(n)    == [k |-> "int", n |-> n]
FloatV(h)  == [k |-> "float", h |-> h]       \* the finite float h / 100
BoolV(b)   == [k |-> "bool", b |-> b]
ListV(l)   == [k |-> "list", l |-> l]
DictV(d)   == [k |-> "dict", d |-> d]        \* d: a function from key names
Null      == [k |-> "null"]
NaN       == [k |-> "nan"]
Inf       == [k |-> "inf", neg |-> FALSE]   \* float('inf'), JSON Infinity
NegInf    == [k |-> "inf", neg |-> TRUE]

EmptyStr  == StrV(<<>>)
NA        == StrV(<<"N", "A">>)

Whitespace == {" ", "\t"}
Digits     == {"0", "1", "2", "3", "4", "5", "6", "7", "8", "9"}

\* Python truthiness: bool(v)
Truthy(v) ==
  CASE v.k = "str"   -> v.s # <<>>
    [] v.k = "int"   -> v.n # 0
    [] v.k = "float" -> v.h # 0
    [] v.k = "bool"  -> v.b
    [] v.k = "list"  -> v.l # <<>>
    [] v.k = "dict"  -> DOMAIN v.d # {}
    [] v.k = "null"  -> FALSE
    [] OTHER         -> TRUE                \* nan and inf are truthy

\* Python `a or b`
Or(a, b) == IF Truthy(a) THEN a ELSE b

\* Python `v == 0` for the values an accumulator's heat / popularity holds
EqZero(v) ==
  CASE v.k = "int"   -> v.n = 0
    [] v.k = "float" -> v.h = 0
    [] v.k = "bool"  -> ~v.b
    [] OTHER         -> FALSE

\* Python `v == ""` and `v is None`
IsEmptyStr(v) == v.k = "str" /\ v.s = <<>>
IsNone(v)     == v.k = "null"

\* Whether a value can be a dict key (lists and dicts are unhashable)
Hashable(v) == v.k \notin {"list", "dict"}

(***************************************************************************)
(* Text: str.strip, str.join, str(int), int(str), float(str)               *)
(***************************************************************************)
RECURSIVE LStrip(_)
LStrip(t) == IF t # <<>> /\ Head(t) \in Whitespace THEN LStrip(Tail(t)) ELSE t

RECURSIVE RStrip(_)
RStrip(t) ==
  IF t # <<>> /\ t[Len(t)] \in Whitespace
  THEN RStrip(SubSeq(t, 1, Len(t) - 1)) ELSE t

Strip(t) == RStrip(LStrip(t))

\* sep.join(parts)
RECURSIVE Join(_, _)
Join(sep, parts) ==
  IF parts = <<>> THEN <<>>
  ELSE IF Len(parts) = 1 THEN parts[1]
  ELSE parts[1] \o sep \o Join(sep, Tail(parts))

DigitChar(d) ==
  CASE d = 0 -> "0" [] d = 1 -> "1" [] d = 2 -> "2" [] d = 3 -> "3"
    [] d = 4 -> "4" [] d = 5 -> "5" [] d = 6 -> "6" [] d = 7 -> "7"
    [] d = 8 -> "8" [] d = 9 -> "9"

DigitVal(c) ==
  CASE c = "0" -> 0 [] c = "1" -> 1 [] c = "2" -> 2 [] c = "3" -> 3
    [] c = "4" -> 4 [] c = "5" -> 5 [] c = "6" -> 6 [] c = "7" -> 7
    [] c = "8" -> 8 [] c = "9" -> 9

RECURSIVE NatText(_)
NatText(n) == IF n < 10 THEN <<DigitChar(n)>>
              ELSE NatText(n \div 10) \o <<DigitChar(n % 10)>>

IntText(n) == IF n < 0 THEN <<"-">> \o NatText(-n) ELSE NatText(n)

\* str(v) for the values the model puts in link lists and scalars
PyStr(v) ==
  CASE v.k = "str"  -> v.s
    [] v.k = "int"  -> IntText(v.n)
    [] v.k = "bool" -> IF v.b THEN <<"T", "r", "u", "e">>
                       ELSE <<"F", "a", "l", "s", "e">>
    [] v.k = "null" -> <<"N", "o", "n", "e">>

AllDigits(t) == t # <<>> /\ \A i \in 1..Len(t) : t[i] \in Digits

RECURSIVE DigitsVal(_)
DigitsVal(t) == IF t = <<>> THEN 0
                ELSE DigitsVal(SubSeq(t, 1, Len(t) - 1)) * 10 + DigitVal(t[Len(t)])

Unsigned(t) == IF t # <<>> /\ Head(t) \in {"+", "-"} THEN Tail(t) ELSE t
Sign(t)     == IF t # <<>> /\ Head(t) = "-" THEN -1 ELSE 1

\* int(text): surrounding whitespace and one sign are accepted, then digits
ParseInt(t) ==
  LET u == Strip(t)
      d == Unsigned(u)
  IN IF AllDigits(d) THEN [r |-> "ok", n |-> Sign(u) * DigitsVal(d)]
     ELSE [r |-> "ValueError"]

Lower(c) == CASE c = "N" -> "n" [] c = "A" -> "a" [] c = "I" -> "i"
              [] c = "F" -> "f" [] OTHER -> c

CaseFold(t) == [i \in 1..Len(t) |-> Lower(t[i])]

DotAt(t) == {i \in 1..Len(t) : t[i] = "."}

\* float(text) for numerals with at most two decimals, nan and inf;
\* the result is a Float, NaN or Inf value
ParseFloat(t) ==
  LET u == Strip(t)
      d == Unsigned(u)
      w == CaseFold(d)
  IN IF w = <<"n", "a", "n">> THEN [r |-> "ok", v |-> NaN]
     ELSE IF w = <<"i", "n", "f">>
       THEN [r |-> "ok", v |-> IF Sign(u) < 0 THEN NegInf ELSE Inf]
     ELSE IF AllDigits(d) THEN [r |-> "ok", v |-> FloatV(Sign(u) * DigitsVal(d) * 100)]
     ELSE IF Cardinality(DotAt(d)) = 1
       THEN LET p  == CHOOSE i \in DotAt(d) : TRUE
                ip == SubSeq(d, 1, p - 1)
                fp == SubSeq(d, p + 1, Len(d))
                f2 == IF Len(fp) = 1 THEN fp \o <<"0">> ELSE fp
            IN IF /\ (ip = <<>> \/ AllDigits(ip))
                  /\ (fp = <<>> \/ AllDigits(fp))
                  /\ (ip # <<>> \/ fp # <<>>)
                  /\ Len(fp) <= 2
               THEN [r |-> "ok",
                     v |-> FloatV(Sign(u) * (DigitsVal(ip) * 100 + DigitsVal(f2)))]
               ELSE [r |-> "ValueError"]
     ELSE [r |-> "ValueError"]

(***************************************************************************)
(* Coercions: int(occupants), float(heat)                                  *)
(***************************************************************************)
\* Truncation toward zero of h / 100
Trunc(h) == IF h >= 0 THEN h \div 100 ELSE -((-h) \div 100)

\* int(v): the integer, or the exception it raises
PyInt(v) ==
  CASE v.k = "int"   -> [r |-> "ok", n |-> v.n]
    [] v.k = "bool"  -> [r |-> "ok", n |-> IF v.b THEN 1 ELSE 0]
    [] v.k = "float" -> [r |-> "ok", n |-> Trunc(v.h)]
    [] v.k = "str"   -> ParseInt(v.s)
    [] v.k = "nan"   -> [r |-> "ValueError"]
    [] v.k = "inf"   -> [r |-> "OverflowError"]
    [] OTHER         -> [r |-> "TypeError"]

\* float(v): the float value, or the exception it raises
PyFloat(v) ==
  CASE v.k = "int"   -> [r |-> "ok", v |-> FloatV(v.n * 100)]
    [] v.k = "bool"  -> [r |-> "ok", v |-> FloatV(IF v.b THEN 100 ELSE 0)]
    [] v.k \in {"float", "nan", "inf"} -> [r |-> "ok", v |-> v]
    [] v.k = "str"   -> ParseFloat(v.s)
    [] OTHER         -> [r |-> "TypeError"]

(***************************************************************************)
(* The helpers of process_vrchat_analytics.py                              *)
(***************************************************************************)
safe_get(data, key) ==
  IF data.k = "dict" /\ key \in DOMAIN data.d THEN data.d[key] ELSE EmptyStr

\* The elements of a list that pass `if link`, string-converted, in order
RECURSIVE LinkTexts(_)
LinkTexts(l) ==
  IF l = <<>> THEN <<>>
  ELSE IF Truthy(Head(l)) THEN <<PyStr(Head(l))>> \o LinkTexts(Tail(l))
  ELSE LinkTexts(Tail(l))

format_bioLinks(bio_links) ==
  IF ~Truthy(bio_links) THEN NA
  ELSE IF bio_links.k = "list"
    THEN StrV(Join(<<";">>, LinkTexts(bio_links.l)))
  ELSE LET link_str == Strip(PyStr(bio_links))
       IN IF link_str # <<>> THEN StrV(link_str) ELSE NA

format_bio(bio) ==
  IF ~Truthy(bio) THEN NA
  ELSE LET bio_str == Strip(PyStr(bio))
       IN IF bio_str # <<>> THEN StrV(bio_str) ELSE NA

\* round(n / d) for d > 0, to the nearest integer, an exact tie to the even one.
\* Python rounds the binary float, which at an exact decimal tie may lie on
\* either side of it; the occupant values of the model are multiples of 16 and
\* its factors 1.0 and 2.0, for which no average, order estimate or spend of
\* up to 9 records is such a tie, so that this is Python's round(x, 2) on
\* every value the model reaches.
Round(n, d) ==
  LET q == n \div d
      r == n - q * d
  IN IF 2 * r < d THEN q
     ELSE IF 2 * r > d THEN q + 1
     ELSE IF q % 2 = 0 THEN q ELSE q + 1

\* The spend derived from the order estimate after it was rounded
calculate_business_metrics_chained(avg_h, factor_h) ==
  LET estimated_orders == Round(avg_h * factor_h * 3, 100000)
  IN [estimated_orders    |-> estimated_orders,
      max_marketing_spend |-> estimated_orders * 140]

\* avg_h: avg_occupants in hundredths; factor_h: the factor in hundredths.
\* The intermediate quotients are exact: daily_visitors in 1e-4, the orders
\* in 1e-7 (x * 30 / 10000 = 3 x / 1000); both results in hundredths.
calculate_business_metrics(avg_h, factor_h) ==
  LET daily_visitors      == avg_h * factor_h
      estimated_orders    == daily_visitors * 3
      max_marketing_spend == estimated_orders * 140
  IN [estimated_orders    |-> Round(estimated_orders, 100000),
      max_marketing_spend |-> Round(max_marketing_spend, 100000)]

(***************************************************************************)
(* aggregate_world_data: the body of the loop over the raw records         *)
(***************************************************************************)
\* The value of the defaultdict's factory
NewInfo ==
  [occupants_sum |-> 0, occurrences |-> 0, max_occupants |-> 0,
   min_occupants |-> Inf,
   name |-> EmptyStr, image_url |-> EmptyStr, author_id |-> EmptyStr,
   author_name |-> EmptyStr, bioLinks |-> EmptyStr, bio |-> EmptyStr,
   heat |-> IntV(0), popularity |-> IntV(0)]

\* world_data is a dict in insertion order: a sequence of <<world_id, info>>
Keys(wd)      == {wd[i][1] : i \in 1..Len(wd)}
IndexOf(wd, key) == CHOOSE i \in 1..Len(wd) : wd[i][1] = key
InfoOf(wd, key)  == wd[IndexOf(wd, key)][2]

\* world_data[world_id] of a defaultdict: the entry, created at the end if new
Entry(wd, key) == IF key \in Keys(wd) THEN InfoOf(wd, key) ELSE NewInfo

Store(wd, key, info) ==
  IF key \in Keys(wd)
  THEN [wd EXCEPT ![IndexOf(wd, key)] = <<key, info>>]
  ELSE Append(wd, <<key, info>>)

\* Lines 159-162: id, then worldId, then world_id
WorldId(world) ==
  LET world_id == safe_get(world, "id")
  IN IF ~Truthy(world_id)
     THEN Or(safe_get(world, "worldId"), safe_get(world, "world_id"))
     ELSE world_id

Missing(v) == IsNone(v) \/ IsEmptyStr(v)

\* Lines 171-177: occupants, then currentUsers, then users, then 0
RawOccupants(world) ==
  LET a == safe_get(world, "occupants")
      b == safe_get(world, "currentUsers")
      c == safe_get(world, "users")
  IN IF ~Missing(a) THEN a
     ELSE IF ~Missing(b) THEN b
     ELSE IF ~Missing(c) THEN c
     ELSE IntV(0)

\* Lines 179-182: ValueError and TypeError give 0, anything else propagates
Occupants(world) ==
  LET c == PyInt(RawOccupants(world))
  IN IF c.r \in {"ValueError", "TypeError"} THEN [r |-> "ok", n |-> 0] ELSE c

\* Lines 223-227 and 230-234: float(x) if x else 0, with 0 on an exception
HeatValue(x) ==
  IF ~Truthy(x) THEN IntV(0)
  ELSE LET c == PyFloat(x) IN IF c.r = "ok" THEN c.v ELSE IntV(0)

Min(a, b) == IF a <= b THEN a ELSE b
Max(a, b) == IF a >= b THEN a ELSE b

\* A fold that takes the latest observation as the maximum
AccumulateLatest(world_info, occupants) ==
  [world_info EXCEPT
     !.occupants_sum = @ + occupants,
     !.occurrences   = @ + 1,
     !.max_occupants = occupants,
     !.min_occupants = IF @ = Inf THEN IntV(occupants)
                       ELSE IntV(Min(@.n, occupants))]

\* Lines 186-194: the numeric part of the fold
Accumulate(world_info, occupants) ==
  [world_info EXCEPT
     !.occupants_sum = @ + occupants,
     !.occurrences   = @ + 1,
     !.max_occupants = Max(@, occupants),
     !.min_occupants = IF @ = Inf THEN IntV(occupants)
                       ELSE IntV(Min(@.n, occupants))]

\* KeepFirst without its `if not world_info[...]`: the last value wins
KeepLast(held, seen) == IF Truthy(seen) THEN seen ELSE held

\* Lines 197-207: a field still falsy takes the record's value
KeepFirst(held, seen) == IF ~Truthy(held) THEN seen ELSE held

\* Lines 209-219: a field still falsy or 'NA' takes the formatted value
\* unless that is 'NA'
KeepFirstText(held, formatted) ==
  IF (~Truthy(held) \/ held = NA) /\ formatted # NA THEN formatted ELSE held

\* Lines 222-234: a field still == 0 takes the record's coerced value
KeepFirstNumber(held, seen) == IF EqZero(held) THEN seen ELSE held

\* What one record supplies for each descriptive field
Seen(world) ==
  [name        |-> safe_get(world, "name"),
   image_url   |-> Or(safe_get(world, "imageUrl"), safe_get(world, "image_url")),
   author_id   |-> Or(safe_get(world, "authorId"), safe_get(world, "author_id")),
   author_name |-> Or(safe_get(world, "authorName"), safe_get(world, "author_name")),
   bioLinks    |-> format_bioLinks(Or(safe_get(world, "bioLinks"),
                                      safe_get(world, "bio_links"))),
   bio         |-> format_bio(Or(safe_get(world, "bio"),
                                 safe_get(world, "description"))),
   heat        |-> HeatValue(safe_get(world, "heat")),
   popularity  |-> HeatValue(safe_get(world, "popularity"))]

\* Lines 196-234: the descriptive part of the fold
StoreDetails(world_info, world) ==
  LET o == Seen(world)
  IN [world_info EXCEPT
        !.name        = KeepFirst(@, o.name),
        !.image_url   = KeepFirst(@, o.image_url),
        !.author_id   = KeepFirst(@, o.author_id),
        !.author_name = KeepFirst(@, o.author_name),
        !.bioLinks    = KeepFirstText(@, o.bioLinks),
        !.bio         = KeepFirstText(@, o.bio),
        !.heat        = KeepFirstNumber(@, o.heat),
        !.popularity  = KeepFirstNumber(@, o.popularity)]

\* The loop body without its `continue`
NeverSkipped(world) == FALSE

\* The three ways one pass of the loop body ends
Skipped(world) == ~Truthy(WorldId(world))
Raises(world)  ==
  /\ ~Skipped(world)
  /\ \/ Occupants(world).r # "ok"          \* line 180, not caught at 181
     \/ ~Hashable(WorldId(world))          \* line 185, unhashable key

FoldInto(wd, world) ==
  LET world_id == WorldId(world)
      info     == Accumulate(Entry(wd, world_id), Occupants(world).n)
  IN Store(wd, world_id, StoreDetails(info, world))

(***************************************************************************)
(* calculate_averages_and_sort and write_csv_output                        *)
(***************************************************************************)
\* Lines 258-270: the fields the pass adds to an info that has enough
\* occurrences; average_occupants and the metrics are in hundredths
Summarise(info, cfg) ==
  LET average_occupants == Round(info.occupants_sum * 100, info.occurrences)
      m == calculate_business_metrics(average_occupants,
                                      cfg.HEAT_POPULARITY_FACTOR)
      fixed == IF info.min_occupants = Inf
               THEN [info EXCEPT !.min_occupants = IntV(0)] ELSE info
  IN [average_occupants   |-> average_occupants,
      estimated_orders    |-> m.estimated_orders,
      max_marketing_spend |-> m.max_marketing_spend] @@ fixed

\* Counted with > for >=
CountedAbove(info, cfg) == info.occurrences > cfg.MIN_OCCURRENCES

Counted(info, cfg) == info.occurrences >= cfg.MIN_OCCURRENCES

\* Line 273
Funded(summary, cfg) == summary.max_marketing_spend >= cfg.MIN_MARKETING_SPEND

\* world_data after the pass: the infos are updated in place
Summarised(wd, cfg) ==
  [i \in 1..Len(wd) |->
     IF Counted(wd[i][2], cfg) THEN <<wd[i][1], Summarise(wd[i][2], cfg)>>
     ELSE wd[i]]

\* Lines 254-274: world_list before the sort, in the dict's order
RECURSIVE Surviving(_, _)
Surviving(wd, cfg) ==
  IF wd = <<>> THEN <<>>
  ELSE LET rest == Surviving(Tail(wd), cfg)
           item == Head(wd)
       IN IF Counted(item[2], cfg) /\ Funded(Summarise(item[2], cfg), cfg)
          THEN <<<<item[1], Summarise(item[2], cfg)>>>> \o rest
          ELSE rest

SortKey(item) == item[2].average_occupants

\* x placed before the elements whose key equals its own: an unstable sort
RECURSIVE InsertDescUnstable(_, _)
InsertDescUnstable(sorted, x) ==
  IF sorted = <<>> THEN <<x>>
  ELSE IF SortKey(Head(sorted)) > SortKey(x)
    THEN <<Head(sorted)>> \o InsertDescUnstable(Tail(sorted), x)
  ELSE <<x>> \o sorted

\* x placed after every element whose key is >= its own
RECURSIVE InsertDesc(_, _)
InsertDesc(sorted, x) ==
  IF sorted = <<>> THEN <<x>>
  ELSE IF SortKey(Head(sorted)) >= SortKey(x)
    THEN <<Head(sorted)>> \o InsertDesc(Tail(sorted), x)
  ELSE <<x>> \o sorted

\* Line 277: list.sort(key=..., reverse=True), which is stable
RECURSIVE SortDesc(_)
SortDesc(l) ==
  IF l = <<>> THEN <<>>
  ELSE InsertDesc(SortDesc(SubSeq(l, 1, Len(l) - 1)), l[Len(l)])

calculate_averages_and_sort(wd, cfg) == SortDesc(Surviving(wd, cfg))

\* Lines 307-323: the row given to the csv writer for one world
Row(world_id, info) ==
  [world_name          |-> IF Truthy(info.name) THEN info.name ELSE world_id,
   world_id            |-> world_id,
   average_occupants   |-> info.average_occupants,
   total_occurrences   |-> info.occurrences,
   max_occupants       |-> info.max_occupants,
   min_occupants       |-> info.min_occupants,
   heat                |-> info.heat,
   popularity          |-> info.popularity,
   estimated_orders    |-> info.estimated_orders,
   max_marketing_spend |-> info.max_marketing_spend,
   image_url           |-> IF Truthy(info.image_url) THEN info.image_url ELSE NA,
   user_id             |-> IF Truthy(info.author_id) THEN info.author_id ELSE NA,
   user_name           |-> IF Truthy(info.author_name) THEN info.author_name ELSE NA,
   bio                 |-> info.bio,
   bioLinks            |-> info.bioLinks]

write_csv_output(wl) == [i \in 1..Len(wl) |-> Row(wl[i][1], wl[i][2])]

(***************************************************************************)
(* The input: what load_json_files may yield from each data directory      *)
(***************************************************************************)
T(c)  == StrV(<<c>>)
W1    == StrV(<<"w", "1">>)
W2    == StrV(<<"w", "2">>)
Empty == <<>>                       \* a dict with no key, a list with no element

\* data/ids: how a record names its world
IdRecords ==
  { DictV(("id" :> W1) @@ ("occupants" :> IntV(16))),
    DictV(("worldId" :> W1) @@ ("occupants" :> IntV(16))),
    DictV(("world_id" :> W2) @@ ("occupants" :> IntV(16))),
    DictV(("id" :> EmptyStr) @@ ("worldId" :> W2) @@ ("world_id" :> W1)),
    DictV(("id" :> Null) @@ ("world_id" :> W1) @@ ("occupants" :> IntV(48))),
    DictV(("id" :> ListV(Empty)) @@ ("worldId" :> W2)),
    DictV(("id" :> IntV(7)) @@ ("occupants" :> IntV(16))),
    \* no usable identifier
    DictV(("id" :> IntV(0)) @@ ("occupants" :> IntV(16))),
    DictV(("id" :> EmptyStr) @@ ("worldId" :> Null) @@ ("name" :> T("A"))),
    DictV(("occupants" :> Inf) @@ ("name" :> T("A"))),
    DictV(Empty),
    IntV(5),
    T("a"),
    ListV(<<W1>>),
    \* an identifier that is no dict key
    DictV(("id" :> ListV(<<W1>>)) @@ ("occupants" :> IntV(16))),
    DictV(("id" :> DictV("a" :> W1)) @@ ("occupants" :> IntV(16))) }

\* data/occupants: the kinds of value the occupant count comes in; what int()
\* makes of them is -16, 0, 16, 32 or 48, or an exception
OccupantValues ==
  { IntV(0), IntV(16), IntV(48), IntV(-16), FloatV(1670), FloatV(-1670),
    StrV(<<"1", "6">>), StrV(<<" ", "4", "8", " ">>), StrV(<<"-", "1", "6">>),
    StrV(<<"1", "6", ".", "5">>), StrV(<<"a", "b">>), NaN, Inf, NegInf,
    ListV(<<IntV(16)>>), DictV(Empty) }

OccupantRecords ==
  { DictV(("id" :> W1) @@ ("occupants" :> v)) : v \in OccupantValues }
  \cup
  { DictV(("id" :> W2)),
    DictV(("id" :> W2) @@ ("occupants" :> EmptyStr) @@ ("currentUsers" :> IntV(32))),
    DictV(("id" :> W2) @@ ("occupants" :> Null) @@ ("currentUsers" :> EmptyStr)
          @@ ("users" :> StrV(<<"4", "8">>))),
    DictV(("id" :> W2) @@ ("currentUsers" :> Null) @@ ("users" :> Null)),
    DictV(("id" :> W2) @@ ("occupants" :> IntV(0)) @@ ("currentUsers" :> IntV(32))),
    DictV(("id" :> W2) @@ ("users" :> Inf)) }

\* data/details: what a record may carry in its descriptive fields
Profiles ==
  { Empty,
    ("name" :> T("A")) @@ ("imageUrl" :> T("a")) @@ ("authorId" :> T("a"))
      @@ ("authorName" :> T("a")) @@ ("bioLinks" :> ListV(<<T("a"), EmptyStr, T("b")>>))
      @@ ("bio" :> StrV(<<" ", "a", " ">>)) @@ ("heat" :> IntV(5))
      @@ ("popularity" :> FloatV(250)),
    ("name" :> T("B")) @@ ("image_url" :> T("b")) @@ ("author_id" :> T("b"))
      @@ ("author_name" :> T("b")) @@ ("bio_links" :> StrV(<<" ", "b">>))
      @@ ("description" :> T("b")) @@ ("heat" :> StrV(<<"7">>))
      @@ ("popularity" :> IntV(3)),
    ("name" :> EmptyStr) @@ ("imageUrl" :> EmptyStr) @@ ("image_url" :> T("b"))
      @@ ("authorId" :> Null) @@ ("bioLinks" :> ListV(<<EmptyStr, EmptyStr>>))
      @@ ("bio" :> StrV(<<" ", " ">>)) @@ ("description" :> T("b"))
      @@ ("heat" :> IntV(0)) @@ ("popularity" :> StrV(<<"0">>)),
    ("name" :> NA) @@ ("bioLinks" :> NA) @@ ("bio" :> NA) @@ ("heat" :> NaN)
      @@ ("popularity" :> StrV(<<"a", "b">>)),
    ("name" :> Null) @@ ("bioLinks" :> ListV(Empty)) @@ ("bio_links" :> T("a"))
      @@ ("bio" :> EmptyStr) @@ ("description" :> StrV(<<"a", " ">>))
      @@ ("heat" :> ListV(<<IntV(5)>>)) @@ ("popularity" :> BoolV(TRUE)),
    ("name" :> IntV(7)) @@ ("bioLinks" :> ListV(<<IntV(7), Null, T("a")>>))
      @@ ("bio" :> IntV(7)) @@ ("heat" :> StrV(<<"2", ".", "5">>))
      @@ ("popularity" :> Inf) }

DetailRecords ==
  { DictV(("id" :> w) @@ ("occupants" :> IntV(16)) @@ p) :
      w \in {W1, W2}, p \in Profiles }

\* data/counts: plain snapshots of two worlds
CountRecords ==
  { DictV(("id" :> w) @@ ("occupants" :> IntV(n))) :
      w \in {W1, W2}, n \in {0, 16, 48} }
  \cup { DictV(Empty), DictV(("id" :> W1) @@ ("occupants" :> Inf)) }

\* data/ranking: snapshots of three worlds
W3 == StrV(<<"w", "3">>)
RankRecords ==
  { DictV(("id" :> w) @@ ("occupants" :> IntV(n))) :
      w \in {W1, W2, W3}, n \in {16, 48} }
  \cup { DictV(("name" :> T("A"))), DictV(("id" :> W3) @@ ("occupants" :> NegInf)) }

\* data/rerun: the input of a run that is repeated
RerunRecords ==
  { DictV(("id" :> w) @@ ("occupants" :> IntV(n))) : w \in {W1, W2}, n \in {16, 48} }
  \cup
  { DictV(("id" :> W1) @@ ("occupants" :> IntV(48)) @@ ("name" :> T("A"))
          @@ ("bio" :> T("a")) @@ ("heat" :> IntV(5))),
    DictV(("id" :> W2) @@ ("occupants" :> IntV(16)) @@ ("name" :> T("B"))
          @@ ("bioLinks" :> ListV(<<T("a"), T("b")>>))),
    DictV(("name" :> T("A"))),
    DictV(("id" :> W2) @@ ("occupants" :> Inf)) }

\* data/order: observations of two worlds that differ in what they carry
OrderRecords ==
  { DictV(("id" :> W1) @@ ("occupants" :> IntV(16)) @@ ("name" :> T("A"))
          @@ ("heat" :> IntV(5))),
    DictV(("id" :> W1) @@ ("occupants" :> IntV(48)) @@ ("name" :> T("B"))
          @@ ("bio" :> T("a"))),
    DictV(("id" :> W1) @@ ("occupants" :> IntV(-16))),
    DictV(("id" :> W2) @@ ("occupants" :> IntV(32)) @@ ("name" :> T("A"))
          @@ ("bioLinks" :> ListV(<<T("a"), T("b")>>))),
    DictV(("id" :> W2) @@ ("occupants" :> IntV(0)) @@ ("name" :> T("B"))
          @@ ("popularity" :> IntV(3))),
    DictV(("name" :> T("A"))),
    DictV(("id" :> W2) @@ ("occupants" :> Inf)) }

\* data/service: the input of the analytics run of production_service
ServiceRecords ==
  { DictV(("id" :> W1) @@ ("occupants" :> IntV(48))),
    DictV(("name" :> T("A"))),
    DictV(("id" :> W1) @@ ("occupants" :> Inf)) }

\* data/absent is no directory: glob finds no file in it
Records(data_dir) ==
  CASE data_dir = "data/ids"       -> IdRecords
    [] data_dir = "data/occupants" -> OccupantRecords
    [] data_dir = "data/details"   -> DetailRecords
    [] data_dir = "data/counts"    -> CountRecords
    [] data_dir = "data/ranking"   -> RankRecords
    [] data_dir = "data/rerun"     -> RerunRecords
    [] data_dir = "data/service"   -> ServiceRecords
    [] data_dir = "data/order"     -> OrderRecords
    [] data_dir = "data/absent"    -> {}

(***************************************************************************)
(* Configuration (load_config) and the bounds of the model                 *)
(***************************************************************************)
DefaultMinOccurrences   == 7
DefaultMinMarketingSpend == 1500    \* '15', in hundredths
DefaultFactor           == 100     \* '1.0', in hundredths

MaxRecords   == 3      \* records read from data/ids, data/occupants, data/details
MaxSnapshots == 7      \* records read from data/counts
MaxRanked    == 4      \* records read from data/ranking
MaxReplayed  == 3      \* records read from data/rerun
MaxLinks     == 3      \* elements of a social-links list
MaxCollected == 1      \* records read from data/service
MaxShuffled  == 3      \* records read from data/order

Policy(dir, occ, spend, factor) ==
  [DATA_LOCATION |-> dir, MIN_OCCURRENCES |-> occ,
   MIN_MARKETING_SPEND |-> spend, HEAT_POPULARITY_FACTOR |-> factor]

\* The environments the model runs the program in
Configs ==
  { Policy("data/ids", 1, 0, DefaultFactor),
    Policy("data/occupants", 1, 0, DefaultFactor),
    Policy("data/occupants", 1, -10000, DefaultFactor),
    Policy("data/details", 1, 0, DefaultFactor),
    Policy("data/details", 2, DefaultMinMarketingSpend, 200),
    Policy("data/counts", DefaultMinOccurrences, DefaultMinMarketingSpend, DefaultFactor),
    Policy("data/counts", DefaultMinOccurrences, 0, DefaultFactor),
    Policy("data/counts", 2, DefaultMinMarketingSpend, 200),
    Policy("data/ranking", 1, 0, DefaultFactor),
    Policy("data/ranking", 1, DefaultMinMarketingSpend, DefaultFactor),
    Policy("data/ranking", 2, 0, 200),
    Policy("data/absent", DefaultMinOccurrences, DefaultMinMarketingSpend, DefaultFactor) }

\* main, line 349: os.path.exists(data_dir)
Exists(data_dir) == data_dir # "data/absent"

\* The environments of the repeated run
RerunConfigs ==
  { Policy("data/rerun", 1, 0, DefaultFactor),
    Policy("data/rerun", 2, DefaultMinMarketingSpend, 200) }

Limit(data_dir) ==
  CASE data_dir = "data/counts"  -> MaxSnapshots
    [] data_dir = "data/ranking" -> MaxRanked
    [] data_dir = "data/rerun"   -> MaxReplayed
    [] data_dir = "data/service" -> MaxCollected
    [] data_dir = "data/order"   -> MaxShuffled
    [] OTHER                     -> MaxRecords

(***************************************************************************)
(* The email service: its configuration, its timestamp file, its runs      *)
(***************************************************************************)
DefaultIntervalHours == 24   \* EMAIL_INTERVAL_HOURS, '24'

HoursPerTick == 8      \* hours between two readings of the clock that differ
MaxTicks     == 3      \* times the clock advances
MaxRuns      == 3      \* runs of a service started

\* What load_email_config returns, as far as main and should_send_email read it
EmailConfig(username, password, to, from, hours) ==
  [EMAIL_USERNAME |-> username, EMAIL_PASSWORD |-> password, TO_EMAIL |-> to,
   FROM_EMAIL |-> from, EMAIL_INTERVAL_HOURS |-> hours]

\* The environments of the email service
EmailConfigs ==
  { EmailConfig(T("u"), T("p"), T("t"), T("f"), DefaultIntervalHours),
    EmailConfig(T("u"), T("p"), T("t"), T("f"), 2 * HoursPerTick),
    EmailConfig(T("u"), EmptyStr, T("t"), T("f"), DefaultIntervalHours),
    EmailConfig(EmptyStr, EmptyStr, EmptyStr, EmptyStr, DefaultIntervalHours) }

required_fields == {"EMAIL_USERNAME", "EMAIL_PASSWORD", "TO_EMAIL", "FROM_EMAIL"}

\* main, line 180
missing_fields(cfg) == { field \in required_fields : ~Truthy(cfg[field]) }

\* LAST_EMAIL_FILE: no file, a text fromisoformat rejects, a time with a UTC
\* offset, or a local time in hours as datetime.now().isoformat() writes it
Absent      == [k |-> "absent"]
Unparseable == [k |-> "text"]
Aware       == [k |-> "aware"]
Stamp(t)    == [k |-> "time", t |-> t]

\* What the file may hold before the first run
LastEmailFiles ==
  { Absent, Unparseable, Aware, Stamp(0 - DefaultIntervalHours),
    Stamp(0 - HoursPerTick) }

\* should_send_email, line 63: datetime.now() minus an offset-aware time
\* raises TypeError, which `except (ValueError, FileNotFoundError)` lets through
CheckRaises(file) == file = Aware

\* A check that lets every run send
AlwaysSend(cfg, file, now) == TRUE

\* should_send_email, lines 47-67, at the time now
should_send_email(cfg, file, now) ==
  \/ file = Absent
  \/ file = Unparseable
  \/ file.k = "time" /\ now - file.t >= cfg.EMAIL_INTERVAL_HOURS

\* update_last_email_time, lines 70-73
update_last_email_time(now) == Stamp(now)

\* send_email, lines 154-168: what the SMTP session may do. "sent": sendmail
\* and quit went through, it returns True; "refused": an exception before the
\* message left, it returns False; "unconfirmed": sendmail delivered and quit
\* raised, it returns False
Sessions == {"sent", "refused", "unconfirmed"}

Delivered(session) == session \in {"sent", "unconfirmed"}

\* A send_email that reports every session as sent
send_email_unchecked(session) == TRUE

send_email(session) == session = "sent"

\* The two runs that may be under way together
Slots == {"first", "second"}

Pending == -1          \* no result yet

\* A run of a script: where it is (pc), what it was started with, the results
\* it holds, and what it has done: calls of should_send_email (checks) and
\* the SMTP session of its send_email call ("none" before the call)
Run(script, force_email, at) ==
  [script |-> script, force_email |-> force_email, pc |-> at,
   analytics_result |-> Pending, email_result |-> Pending, returned |-> Pending,
   checks |-> 0, session |-> "none"]

Idle == Run("none", FALSE, "idle")

(***************************************************************************)
(* State                                                                   *)
(***************************************************************************)
VARIABLES
  config,        \* main's config
  pc,            \* "fold": in the loop of aggregate_world_data;
                 \* "sorted": calculate_averages_and_sort returned;
                 \* "written": main returned 0; "nodata": main returned 1;
                 \* "nodir": main returned 1, the data directory is absent;
                 \* "raised": an exception left aggregate_world_data
  world_data,    \* the dict of accumulators, in insertion order
  world_count,   \* records that had an identifier
  records_read,  \* records load_json_files has yielded in this run
  world,         \* the loop variable: the record last yielded
  world_list,    \* the list calculate_averages_and_sort returned
  rows,          \* the rows given to the csv writer
  run,           \* 1: the first run of main; 2: its repetition on the same input
  input,         \* the records the first run has read, in order
  first,         \* how the first run ended: its pc, world_list and rows
  bio_links,     \* format_bioLinks: its argument
  formatted_links, \* format_bioLinks: its result, NoResult before the call
  clock,         \* datetime.now(), in hours
  last_email_file, \* what LAST_EMAIL_FILE holds
  email_config,  \* what load_email_config returns
  service,       \* the runs of email_service and production_service
  outbox,        \* the messages sendmail delivered: when, and what send_email returned
  started,       \* runs started so far
  reordered,     \* the records of input in another order
  reordered_data \* what aggregate_world_data makes of reordered

mail == <<clock, last_email_file, email_config, service, outbox, started>>

vars == <<config, pc, world_data, world_count, records_read, world,
          world_list, rows, run, input, first, bio_links, formatted_links,
          clock, last_email_file, email_config, service, outbox, started,
          reordered, reordered_data>>

NoRecord == Null
NoResult == Null

\* A dict that outlives the call: the accumulators of the run before
LeftoverWorldData == world_data

\* Line 141: every call of aggregate_world_data makes its own dict
NewWorldData == <<>>

RunStart ==
  /\ pc = "fold"
  /\ world_data = <<>>
  /\ world_count = 0
  /\ records_read = 0
  /\ world = NoRecord
  /\ world_list = <<>>
  /\ rows = <<>>
  /\ run = 1
  /\ input = <<>>
  /\ first = <<>>

\* No email service is run
MailOff ==
  /\ clock = 0
  /\ last_email_file = Absent
  /\ email_config \in {EmailConfig(T("u"), T("p"), T("t"), T("f"), DefaultIntervalHours)}
  /\ service = [p \in Slots |-> Idle]
  /\ outbox = <<>>
  /\ started = 0
  /\ reordered = <<>>
  /\ reordered_data = NoResult

Init ==
  /\ config \in Configs
  /\ RunStart
  /\ bio_links = Null
  /\ formatted_links = NoResult
  /\ MailOff

aside == <<run, input, first, bio_links, formatted_links, mail, reordered,
           reordered_data>>

MoreInput ==
  /\ pc = "fold"
  /\ Exists(config.DATA_LOCATION)
  /\ records_read < Limit(config.DATA_LOCATION)

\* One pass of the loop body, lines 158-234, for the record w
Consume(w) ==
  /\ world' = w
  /\ records_read' = records_read + 1
  /\ IF Skipped(w)
     THEN UNCHANGED <<world_data, world_count, pc>>
     ELSE /\ world_count' = world_count + 1
          /\ IF Raises(w)
             THEN pc' = "raised" /\ UNCHANGED world_data
             ELSE pc' = pc /\ world_data' = FoldInto(world_data, w)

\* Lines 164-166: a record without identifier
SkipRecord ==
  /\ MoreInput
  /\ \E w \in Records(config.DATA_LOCATION) : Skipped(w) /\ Consume(w)
  /\ UNCHANGED <<config, world_list, rows, aside>>

\* Lines 168-234: a record folded into its world's accumulator
FoldRecord ==
  /\ MoreInput
  /\ \E w \in Records(config.DATA_LOCATION) :
       ~Skipped(w) /\ ~Raises(w) /\ Consume(w)
  /\ UNCHANGED <<config, world_list, rows, aside>>

\* Lines 168-185: int() or the dict lookup raises; nothing catches it
AbortRecord ==
  /\ MoreInput
  /\ \E w \in Records(config.DATA_LOCATION) : Raises(w) /\ Consume(w)
  /\ UNCHANGED <<config, world_list, rows, aside>>

\* The generator is exhausted: at any point in a first run, after the same
\* records in its repetition
InputEnded ==
  /\ pc = "fold"
  /\ Exists(config.DATA_LOCATION)
  /\ (run = 1 \/ records_read = Len(input))

\* main, lines 348-352: the data directory does not exist
DataDirMissing ==
  /\ pc = "fold"
  /\ ~Exists(config.DATA_LOCATION)
  /\ pc' = "nodir"
  /\ UNCHANGED <<config, world_data, world_count, records_read, world,
                 world_list, rows, aside>>

\* main, lines 358-360: the input ended and no world was found
NoWorldData ==
  /\ InputEnded
  /\ world_data = <<>>
  /\ pc' = "nodata"
  /\ UNCHANGED <<config, world_data, world_count, records_read, world,
                 world_list, rows, aside>>

\* main, line 363: the input ended; filter, derive the metrics, rank
CalculateAveragesAndSort ==
  /\ InputEnded
  /\ world_data # <<>>
  /\ world_list' = calculate_averages_and_sort(world_data, config)
  /\ world_data' = Summarised(world_data, config)
  /\ pc' = "sorted"
  /\ UNCHANGED <<config, world_count, records_read, world, rows, aside>>

\* main, line 366
WriteCsvOutput ==
  /\ pc = "sorted"
  /\ rows' = write_csv_output(world_list)
  /\ pc' = "written"
  /\ UNCHANGED <<config, world_data, world_count, records_read, world,
                 world_list, aside>>

Next ==
  \/ DataDirMissing
  \/ SkipRecord
  \/ FoldRecord
  \/ AbortRecord
  \/ NoWorldData
  \/ CalculateAveragesAndSort
  \/ WriteCsvOutput

Spec == Init /\ [][Next]_vars

(***************************************************************************)
(* The same input aggregated twice                                         *)
(***************************************************************************)
InitRerun ==
  /\ config \in RerunConfigs
  /\ RunStart
  /\ bio_links = Null
  /\ formatted_links = NoResult
  /\ MailOff

\* The first run reads a record; the record is kept to be read again
FirstRunRecord ==
  /\ run = 1
  /\ MoreInput
  /\ \E w \in Records(config.DATA_LOCATION) :
       Consume(w) /\ input' = Append(input, w)
  /\ UNCHANGED <<config, world_list, rows, run, first, bio_links,
                 formatted_links, mail, reordered, reordered_data>>

Ended == pc \in {"written", "nodata", "raised"}

\* main is run again with the same config on the same records
RunAgain ==
  /\ run = 1
  /\ Ended
  /\ first' = [pc |-> pc, world_list |-> world_list, rows |-> rows]
  /\ run' = 2
  /\ pc' = "fold"
  /\ world_data' = NewWorldData
  /\ world_count' = 0
  /\ records_read' = 0
  /\ world' = NoRecord
  /\ world_list' = <<>>
  /\ rows' = <<>>
  /\ UNCHANGED <<config, input, bio_links, formatted_links, mail, reordered,
                 reordered_data>>

SecondRunRecord ==
  /\ run = 2
  /\ pc = "fold"
  /\ records_read < Len(input)
  /\ Consume(input[records_read + 1])
  /\ UNCHANGED <<config, world_list, rows, aside>>

NextRerun ==
  \/ FirstRunRecord
  \/ RunAgain
  \/ SecondRunRecord
  \/ NoWorldData
  \/ CalculateAveragesAndSort
  \/ WriteCsvOutput

SpecRerun == InitRerun /\ [][NextRerun]_vars

(***************************************************************************)
(* format_bioLinks on its own                                              *)
(***************************************************************************)
LinkElements == {T("a"), T("b"), EmptyStr, IntV(7)}

RECURSIVE ListsUpTo(_)
ListsUpTo(n) ==
  IF n = 0 THEN {<<>>}
  ELSE LET shorter == ListsUpTo(n - 1)
       IN shorter \cup {Append(l, e) : l \in shorter, e \in LinkElements}

LinkInputs ==
  { ListV(l) : l \in ListsUpTo(MaxLinks) }
  \cup { EmptyStr, StrV(<<" ", " ">>), StrV(<<" ", "a", " ">>), T("a"), NA,
         Null, IntV(0), IntV(7), BoolV(TRUE), BoolV(FALSE) }

InitFormat ==
  /\ config = Policy("data/ids", 1, 0, DefaultFactor)
  /\ RunStart
  /\ bio_links \in LinkInputs
  /\ formatted_links = NoResult
  /\ MailOff

FormatBioLinks ==
  /\ formatted_links = NoResult
  /\ formatted_links' = format_bioLinks(bio_links)
  /\ UNCHANGED <<config, pc, world_data, world_count, records_read, world,
                 world_list, rows, run, input, first, bio_links, mail,
                 reordered, reordered_data>>

NextFormat == FormatBioLinks

SpecFormat == InitFormat /\ [][NextFormat]_vars

(***************************************************************************)
(* The same records aggregated in two orders                               *)
(***************************************************************************)
RECURSIVE SequencesUpTo(_, _)
SequencesUpTo(S, n) ==
  IF n = 0 THEN {<<>>}
  ELSE LET shorter == SequencesUpTo(S, n - 1)
       IN shorter \cup {Append(l, e) : l \in shorter, e \in S}

\* The orders the records of l can be read in
Orders(l) ==
  LET n == Len(l)
      Reorderings == { f \in [1..n -> 1..n] : \A i, j \in 1..n : f[i] = f[j] => i = j }
  IN { [i \in 1..n |-> l[f[i]]] : f \in Reorderings }

\* The loop of aggregate_world_data, lines 158-234, from the dict wd on
RECURSIVE AggregateFrom(_, _)
AggregateFrom(wd, records) ==
  IF records = <<>> THEN [pc |-> "aggregated", world_data |-> wd]
  ELSE LET w == Head(records)
       IN IF Skipped(w) THEN AggregateFrom(wd, Tail(records))
          ELSE IF Raises(w) THEN [pc |-> "raised", world_data |-> wd]
          ELSE AggregateFrom(FoldInto(wd, w), Tail(records))

\* aggregate_world_data, lines 134-239: the dict it returns, or "raised"
aggregate_world_data(records) == AggregateFrom(NewWorldData, records)

InitOrder ==
  /\ config = Policy("data/order", 1, 0, DefaultFactor)
  /\ pc = "fold"
  /\ world_data = <<>>
  /\ world_count = 0
  /\ records_read = 0
  /\ world = NoRecord
  /\ world_list = <<>>
  /\ rows = <<>>
  /\ run = 1
  /\ input \in SequencesUpTo(Records(config.DATA_LOCATION), Limit(config.DATA_LOCATION))
  /\ first = <<>>
  /\ bio_links = Null
  /\ formatted_links = NoResult
  /\ clock = 0
  /\ last_email_file = Absent
  /\ email_config = EmailConfig(T("u"), T("p"), T("t"), T("f"), DefaultIntervalHours)
  /\ service = [p \in Slots |-> Idle]
  /\ outbox = <<>>
  /\ started = 0
  /\ reordered \in Orders(input)
  /\ reordered_data = NoResult

\* aggregate_world_data on the records in the order of input; the loop's
\* counters are not followed
AggregateInput ==
  /\ pc = "fold"
  /\ LET result == aggregate_world_data(input)
     IN /\ pc' = result.pc
        /\ world_data' = result.world_data
  /\ UNCHANGED <<config, world_count, records_read, world, world_list, rows,
                 aside>>

\* aggregate_world_data on the same records in the order of reordered
AggregateReordered ==
  /\ reordered_data = NoResult
  /\ reordered_data' = aggregate_world_data(reordered)
  /\ UNCHANGED <<config, pc, world_data, world_count, records_read, world,
                 world_list, rows, run, input, first, bio_links,
                 formatted_links, mail, reordered>>

NextOrder ==
  \/ AggregateInput
  \/ AggregateReordered

SpecOrder == InitOrder /\ [][NextOrder]_vars

(***************************************************************************)
(* email_service and production_service                                    *)
(***************************************************************************)
ServiceConfigs ==
  { Policy("data/service", 1, 0, DefaultFactor),
    Policy("data/absent", 1, 0, DefaultFactor) }

\* No analytics run is under way
AnalyticsOff ==
  /\ pc = "off"
  /\ world_data = <<>>
  /\ world_count = 0
  /\ records_read = 0
  /\ world = NoRecord
  /\ world_list = <<>>
  /\ run = 1
  /\ input = <<>>
  /\ first = <<>>

InitMail ==
  /\ config \in ServiceConfigs
  /\ AnalyticsOff
  /\ rows = <<>>
  /\ bio_links = Null
  /\ formatted_links = NoResult
  /\ clock = 0
  /\ last_email_file \in LastEmailFiles
  /\ email_config \in EmailConfigs
  /\ service = [p \in Slots |-> Idle]
  /\ outbox = <<>>
  /\ started = 0
  /\ reordered = <<>>
  /\ reordered_data = NoResult

\* Overlapping runs: under a complete configuration, with no timestamp file
\* or one whose time is a full default interval old when the first run starts
InitOverlap ==
  /\ InitMail
  /\ missing_fields(email_config) = {}
  /\ last_email_file \in {Absent, Stamp(0 - DefaultIntervalHours)}

analytics == <<config, pc, world_data, world_count, records_read, world,
               world_list, rows, run, input, first, bio_links, formatted_links,
               reordered, reordered_data>>

Active(r) == r.pc \notin {"idle", "returned", "raised"}

\* The script ends with the exit code result
Return(r, result) == [r EXCEPT !.returned = result, !.pc = "returned"]

\* email_service.main returns result: the exit code of email_service, and
\* the email_result production_service.main returns at line 75
EmailReturn(r, result) == Return([r EXCEPT !.email_result = result], result)

\* An exception leaves the script
Raise(r) == [r EXCEPT !.pc = "raised"]

\* Time passes
Tick ==
  /\ clock < MaxTicks * HoursPerTick
  /\ clock' = clock + HoursPerTick
  /\ UNCHANGED <<analytics, last_email_file, email_config, service, outbox, started>>

\* python scripts/email_service.py
StartEmailService(p) ==
  /\ started < MaxRuns
  /\ ~Active(service[p])
  /\ service' = [service EXCEPT ![p] = Run("email_service", FALSE, "main")]
  /\ started' = started + 1
  /\ UNCHANGED <<analytics, clock, last_email_file, email_config, outbox>>

\* python scripts/production_service.py [--force-email], up to the call of
\* run_analytics at line 44; the model follows one analytics run at a time
StartProductionService(p, force_email) ==
  /\ started < MaxRuns
  /\ ~Active(service[p])
  /\ pc = "off"
  /\ service' = [service EXCEPT ![p] = Run("production_service", force_email, "analytics")]
  /\ started' = started + 1
  /\ pc' = "fold"
  /\ UNCHANGED <<config, world_data, world_count, records_read, world,
                 world_list, rows, run, input, first, bio_links,
                 formatted_links, clock, last_email_file, email_config, outbox,
                 reordered, reordered_data>>

\* process_vrchat_analytics.main: 0 at line 373, 1 at lines 352 and 360
ExitCode(at) == IF at = "written" THEN 0 ELSE 1

\* The locals of the analytics run are dropped; worlds_aggregated.csv stays
AnalyticsLeft ==
  /\ pc' = "off"
  /\ world_data' = <<>>
  /\ world_count' = 0
  /\ records_read' = 0
  /\ world' = NoRecord
  /\ world_list' = <<>>
  /\ UNCHANGED <<config, rows, run, input, first, bio_links, formatted_links,
                 reordered, reordered_data>>

\* An analytics result that is never taken as a failure
AnalyticsNeverFailed(analytics_result) == FALSE

\* production_service.main, line 46
AnalyticsFailed(analytics_result) == analytics_result # 0

\* production_service.main, lines 44-57: run_analytics returned
AnalyticsReturns(p) ==
  /\ service[p].pc = "analytics"
  /\ pc \in {"written", "nodata", "nodir"}
  /\ LET r == [service[p] EXCEPT !.analytics_result = ExitCode(pc)]
     IN service' = [service EXCEPT ![p] =
          IF AnalyticsFailed(r.analytics_result) THEN Return(r, r.analytics_result)
          ELSE IF r.force_email THEN [r EXCEPT !.pc = "main"]
          ELSE [r EXCEPT !.pc = "precheck"]]
  /\ AnalyticsLeft
  /\ UNCHANGED <<clock, last_email_file, email_config, outbox, started>>

\* production_service.main, line 44: the exception that left
\* aggregate_world_data leaves run_analytics and main
AnalyticsRaises(p) ==
  /\ service[p].pc = "analytics"
  /\ pc = "raised"
  /\ service' = [service EXCEPT ![p] = Raise(@)]
  /\ AnalyticsLeft
  /\ UNCHANGED <<clock, last_email_file, email_config, outbox, started>>

\* One call of should_send_email by the run r, which goes on at `next` when
\* it returns True and returns 0 when it returns False: email_service.main,
\* lines 189-191, and production_service.main, lines 62-67 and 75
Check(r, next) ==
  LET checked == [r EXCEPT !.checks = @ + 1]
  IN IF CheckRaises(last_email_file) THEN Raise(checked)
     ELSE IF should_send_email(email_config, last_email_file, clock)
          THEN [checked EXCEPT !.pc = next]
     ELSE EmailReturn(checked, 0)

\* production_service.main, lines 58-75, without --force-email
ProductionCheck(p) ==
  /\ service[p].pc = "precheck"
  /\ service' = [service EXCEPT ![p] = Check(@, "main")]
  /\ UNCHANGED <<analytics, clock, last_email_file, email_config, outbox, started>>

\* email_service.main, lines 173-185
EmailMain(p) ==
  /\ service[p].pc = "main"
  /\ service' = [service EXCEPT ![p] =
       IF missing_fields(email_config) # {} THEN EmailReturn(@, 1)
       ELSE [@ EXCEPT !.pc = "check"]]
  /\ UNCHANGED <<analytics, clock, last_email_file, email_config, outbox, started>>

\* email_service.main, lines 187-191
CheckInterval(p) ==
  /\ service[p].pc = "check"
  /\ service' = [service EXCEPT ![p] = Check(@, "send")]
  /\ UNCHANGED <<analytics, clock, last_email_file, email_config, outbox, started>>

\* email_service.main, lines 193-203 and 207-209: the summary, the message
\* and the SMTP session
SendEmail(p) ==
  /\ service[p].pc = "send"
  /\ \E session \in Sessions :
       /\ outbox' = IF Delivered(session)
                    THEN Append(outbox, [at |-> clock, returned |-> send_email(session)])
                    ELSE outbox
       /\ LET r == [service[p] EXCEPT !.session = session]
          IN service' = [service EXCEPT ![p] =
               IF send_email(session) THEN [r EXCEPT !.pc = "update"]
               ELSE EmailReturn(r, 1)]
  /\ UNCHANGED <<analytics, clock, last_email_file, email_config, started>>

\* email_service.main, lines 204-206
UpdateLastEmailTime(p) ==
  /\ service[p].pc = "update"
  /\ last_email_file' = update_last_email_time(clock)
  /\ service' = [service EXCEPT ![p] = EmailReturn(@, 0)]
  /\ UNCHANGED <<analytics, clock, email_config, outbox, started>>

\* The steps of process_vrchat_analytics.main under run_analytics
RunAnalytics ==
  \/ DataDirMissing
  \/ SkipRecord
  \/ FoldRecord
  \/ AbortRecord
  \/ NoWorldData
  \/ CalculateAveragesAndSort
  \/ WriteCsvOutput

\* Runs started one after the other: the scheduler starts a service when the
\* run before it has ended
NextMail ==
  \/ Tick
  \/ StartEmailService("first")
  \/ \E force_email \in BOOLEAN : StartProductionService("first", force_email)
  \/ RunAnalytics
  \/ AnalyticsReturns("first")
  \/ AnalyticsRaises("first")
  \/ ProductionCheck("first")
  \/ EmailMain("first")
  \/ CheckInterval("first")
  \/ SendEmail("first")
  \/ UpdateLastEmailTime("first")

SpecMail == InitMail /\ [][NextMail]_vars

\* Runs that overlap: a service is started while another is under way
NextOverlap ==
  \/ Tick
  \/ \E p \in Slots : StartEmailService(p)
  \/ \E p \in Slots, force_email \in BOOLEAN : StartProductionService(p, force_email)
  \/ RunAnalytics
  \/ \E p \in Slots : AnalyticsReturns(p)
  \/ \E p \in Slots : AnalyticsRaises(p)
  \/ \E p \in Slots : ProductionCheck(p)
  \/ \E p \in Slots : EmailMain(p)
  \/ \E p \in Slots : CheckInterval(p)
  \/ \E p \in Slots : SendEmail(p)
  \/ \E p \in Slots : UpdateLastEmailTime(p)

SpecOverlap == InitOverlap /\ [][NextOverlap]_vars

(***************************************************************************)
(* Properties                                                              *)
(***************************************************************************)
TextFields   == {"name", "image_url", "author_id", "author_name"}
NoteFields   == {"bioLinks", "bio"}
NumberFields == {"heat", "popularity"}
StickyFields == TextFields \cup NoteFields \cup NumberFields

\* A value other than the field's sentinel: '' (any falsy value) for the text
\* fields, '' and 'NA' for bioLinks and bio, 0 for heat and popularity
NonSentinel(f, v) ==
  CASE f \in TextFields -> Truthy(v)
    [] f \in NoteFields -> Truthy(v) /\ v # NA
    [] OTHER            -> ~EqZero(v)

\* The step folds the record world' into an accumulator
FoldStep ==
  /\ records_read' = records_read + 1
  /\ world_count' = world_count + 1
  /\ pc' = "fold"

C1_Step ==
  /\ \A key \in Keys(world_data) :
       /\ key \in Keys(world_data')
       /\ \A f \in StickyFields :
            NonSentinel(f, InfoOf(world_data, key)[f])
              => InfoOf(world_data', key)[f] = InfoOf(world_data, key)[f]
  /\ FoldStep =>
       LET key    == WorldId(world')
           before == IF key \in Keys(world_data) THEN InfoOf(world_data, key)
                     ELSE NewInfo
           after  == InfoOf(world_data', key)
           seen   == Seen(world')
       IN \A f \in StickyFields :
            (~NonSentinel(f, before[f]) /\ NonSentinel(f, seen[f]))
              => after[f] = seen[f]

\* C1: every sticky field of every world takes the value of the first record
\* of that world that supplies a non-sentinel value for it, and a stored
\* non-sentinel value is changed by no later step, whatever a later record of
\* the world carries.
C1_FirstWins == [][C1_Step]_vars

\* A record of a world was folded that carries, for each of the eight sticky
\* fields, a non-sentinel value other than the one the accumulator holds
C1_Witness ==
  /\ pc = "fold"
  /\ records_read > 0
  /\ ~Skipped(world)
  /\ \A f \in StickyFields :
       /\ NonSentinel(f, Seen(world)[f])
       /\ NonSentinel(f, InfoOf(world_data, WorldId(world))[f])
       /\ InfoOf(world_data, WorldId(world))[f] # Seen(world)[f]

ListedIds == {world_list[i][1] : i \in 1..Len(world_list)}

DerivedSpend(info) ==
  calculate_business_metrics(Round(info.occupants_sum * 100, info.occurrences),
                             config.HEAT_POPULARITY_FACTOR).max_marketing_spend

\* C2: a world is in the list calculate_averages_and_sort returns iff it has
\* at least MIN_OCCURRENCES occurrences and its derived max_marketing_spend
\* is at least MIN_MARKETING_SPEND; each listed world is listed once.  With
\* MIN_OCCURRENCES = 7, six occurrences never suffice and seven suffice iff
\* the spend does.
C2_Filter ==
  pc \in {"sorted", "written"} =>
    /\ ListedIds \subseteq Keys(world_data)
    /\ Cardinality(ListedIds) = Len(world_list)
    /\ \A key \in Keys(world_data) :
         LET info == InfoOf(world_data, key)
         IN /\ key \in ListedIds <=>
                 /\ info.occurrences >= config.MIN_OCCURRENCES
                 /\ DerivedSpend(info) >= config.MIN_MARKETING_SPEND
            /\ config.MIN_OCCURRENCES = 7 =>
                 /\ info.occurrences = 6 => key \notin ListedIds
                 /\ info.occurrences = 7 =>
                      (key \in ListedIds <=>
                         DerivedSpend(info) >= config.MIN_MARKETING_SPEND)

\* Under MIN_OCCURRENCES = 7 and MIN_MARKETING_SPEND = 15 a world seen exactly
\* seven times is listed
C2_Witness ==
  /\ pc = "sorted"
  /\ config.MIN_OCCURRENCES = DefaultMinOccurrences
  /\ config.MIN_MARKETING_SPEND = DefaultMinMarketingSpend
  /\ \E key \in ListedIds : InfoOf(world_data, key).occurrences = 7

\* C3: the returned list is in descending order of average_occupants, and
\* worlds of equal average_occupants are in the order in which their
\* accumulators were created.
C3_Sorted ==
  pc \in {"sorted", "written"} =>
    \A i, j \in 1..Len(world_list) :
      i < j =>
        /\ world_list[i][2].average_occupants >= world_list[j][2].average_occupants
        /\ world_list[i][2].average_occupants = world_list[j][2].average_occupants
             => IndexOf(world_data, world_list[i][1])
                  < IndexOf(world_data, world_list[j][1])

\* Three worlds are listed, two of them with equal averages, and a world
\* created later is listed before one created earlier
C3_Witness ==
  /\ pc = "sorted"
  /\ Len(world_list) = 3
  /\ \E i, j \in 1..3 :
       /\ i < j
       /\ world_list[i][2].average_occupants = world_list[j][2].average_occupants
  /\ \E i, j \in 1..3 :
       /\ i < j
       /\ IndexOf(world_data, world_list[i][1]) > IndexOf(world_data, world_list[j][1])

\* None of id, worldId, world_id holds a non-empty value
NoIdentifier(w) ==
  \A key \in {"id", "worldId", "world_id"} : ~Truthy(safe_get(w, key))

TotalOccurrences ==
  LET RECURSIVE Sum(_)
      Sum(i) == IF i = 0 THEN 0 ELSE world_data[i][2].occurrences + Sum(i - 1)
  IN Sum(Len(world_data))

C4_State ==
  /\ \A key \in Keys(world_data) : Truthy(key)
  /\ ListedIds \subseteq Keys(world_data)
  /\ {rows[i].world_id : i \in 1..Len(rows)} \subseteq Keys(world_data)
  /\ pc = "fold" => TotalOccurrences = world_count
  /\ (/\ pc = "fold" /\ records_read > 0 /\ NoIdentifier(world)
      /\ records_read < Limit(config.DATA_LOCATION)) => ENABLED FoldRecord

C4_Step ==
  (records_read' = records_read + 1 /\ NoIdentifier(world')) =>
     /\ world_data' = world_data
     /\ world_count' = world_count
     /\ pc' = "fold"

\* C4: a record without a non-empty id, worldId or world_id is skipped: the
\* step that reads it changes no accumulator and creates none, the loop goes
\* on (the next record can be folded), and no key of the accumulators, of the
\* list or of the rows is other than a non-empty identifier; while the loop
\* runs, the occurrences add up to the number of records that had one.
C4_Skip == []C4_State /\ [][C4_Step]_vars

\* A record without identifier was read, and a record read after it was
\* folded: two records have been folded, and the one read last is one of them
C4_Witness ==
  /\ pc = "fold"
  /\ world_count >= 2
  /\ records_read > world_count
  /\ ~NoIdentifier(world)

\* C5: a world seen in exactly one record has occurrences 1, max_occupants
\* and min_occupants equal to the coerced occupant value of that record, and
\* an average_occupants equal to it.
C5_SingleObservation ==
  \A key \in Keys(world_data) :
    LET info == InfoOf(world_data, key)
    IN info.occurrences = 1 =>
         /\ info.max_occupants = info.occupants_sum
         /\ info.min_occupants = IntV(info.occupants_sum)
         /\ "average_occupants" \in DOMAIN info
              => info.average_occupants = 100 * info.occupants_sum
         /\ (pc = "fold" /\ ~Skipped(world) /\ key = WorldId(world))
              => info.occupants_sum = Occupants(world).n

Abs(x) == IF x < 0 THEN -x ELSE x

\* y hundredths is x / 100000 rounded to the nearest hundredth
Nearest(y, x) == 2 * Abs(y * 100000 - x) <= 100000

\* daily_visitors * 30 / 10000, in units of 1e-7, from the emitted average
OrdersOf(info) == info.average_occupants * config.HEAT_POPULARITY_FACTOR * 3

C7_NeverEmpty ==
  formatted_links # NoResult =>
    /\ formatted_links.k = "str"
    /\ formatted_links # EmptyStr
    /\ bio_links.k = "list" /\ bio_links.l # <<>>
         => \/ formatted_links = StrV(Join(<<";">>, LinkTexts(bio_links.l)))
            \/ formatted_links = NA
    /\ bio_links.k = "list" /\ bio_links.l = <<>> => formatted_links = NA
    /\ bio_links.k = "str"
         => formatted_links = IF Strip(bio_links.s) = <<>> THEN NA
                              ELSE StrV(Strip(bio_links.s))

\* C8: a second run of aggregate_world_data, calculate_averages_and_sort and
\* write_csv_output on the records and the config of the first ends as the
\* first did, with the same list (worlds, order, field values) and rows.
C8_SameResult ==
  (run = 2 /\ Ended) =>
     /\ pc = first.pc
     /\ world_list = first.world_list
     /\ rows = first.rows

\* The second run has listed two worlds, as the first had
C8_Witness ==
  /\ run = 2
  /\ pc = "written"
  /\ Len(world_list) = 2
  /\ Len(input) = MaxReplayed

C9_Step ==
  records_read' = records_read + 1 =>
     /\ pc' = "fold"
     /\ \/ world_data' = world_data
        \/ world_data' = FoldInto(world_data, world')

\* C9: whatever a record holds, the step that reads it skips it or folds it
\* with defaults for what cannot be coerced; no exception leaves
\* aggregate_world_data, and the loop goes on.
C9_NeverRaises == [](pc # "raised") /\ [][C9_Step]_vars

\* C10: in every row, image_url, user_id, user_name, bio and bioLinks are
\* 'NA' when the world's records supplied nothing, never the empty string.
C10_NARendered ==
  \A i \in 1..Len(rows) :
    \A column \in {"image_url", "user_id", "user_name", "bio", "bioLinks"} :
      rows[i][column] # EmptyStr


\* C11: after every pass of the loop of aggregate_world_data, every
\* accumulator in the dict has occurrences >= 1, occupants_sum >= 0 and
\* min_occupants <= max_occupants, min_occupants being an integer and never
\* the infinite value the accumulator is made with.
C11_Accumulators ==
  pc = "fold" =>
    \A key \in Keys(world_data) :
      LET info == InfoOf(world_data, key)
      IN /\ info.occurrences >= 1
         /\ info.occupants_sum >= 0
         /\ info.min_occupants.k = "int"
         /\ info.min_occupants.n <= info.max_occupants


\* C12: a run of production_service with --force-email whose analytics
\* returned 0, under a complete email configuration, calls send_email before
\* it returns, however recent the time in the last-sent file is.
C12_ForcedSend ==
  \A p \in Slots :
    LET r == service[p]
    IN (/\ r.script = "production_service"
        /\ r.force_email
        /\ r.analytics_result = 0
        /\ missing_fields(email_config) = {}
        /\ r.pc = "returned")
       => r.session # "none"


\* The last-sent file is absent or unparseable, or its time lies at least
\* EMAIL_INTERVAL_HOURS before now
Due ==
  \/ last_email_file \in {Absent, Unparseable}
  \/ /\ last_email_file.k = "time"
     /\ last_email_file.t + email_config.EMAIL_INTERVAL_HOURS <= clock

\* The times of the sends that send_email reported as successful, in order
Successes == SelectSeq(outbox, LAMBDA m : m.returned)

\* C13: with runs of email_service.main that do not overlap, a run is about
\* to send, or has just sent, only when the last-sent file is absent or
\* unparseable or holds a time at least EMAIL_INTERVAL_HOURS before the
\* current time; and any two successful sends are at least
\* EMAIL_INTERVAL_HOURS apart.
C13_Interval ==
  /\ \A p \in Slots : service[p].pc \in {"send", "update"} => Due
  /\ \A i, j \in DOMAIN Successes :
       i < j => Successes[i].at + email_config.EMAIL_INTERVAL_HOURS <= Successes[j].at

\* Two runs have sent, the second as soon as the interval allowed
C13_Witness ==
  /\ Len(Successes) = 2
  /\ Successes[2].at = Successes[1].at + email_config.EMAIL_INTERVAL_HOURS
  /\ service["first"].pc = "returned"
  /\ service["first"].session = "sent"


C14_Step ==
  /\ last_email_file' # last_email_file =>
       \E p \in Slots :
         /\ service[p].pc = "update"
         /\ service[p].session = "sent"
         /\ service'[p].pc = "returned"
         /\ service'[p].returned = 0
  /\ \A p \in Slots :
       (/\ service[p].pc # "returned"
        /\ service'[p].pc = "returned"
        /\ service'[p].session # "sent")
       => last_email_file' = last_email_file

\* C14: the last-sent file changes only in the step that follows a send_email
\* that returned True, in the run that sent; the step in which a run returns
\* because configuration is missing, because the interval has not elapsed or
\* because send_email failed leaves the file as it was.
C14_FileKept == [][C14_Step]_vars

\* A run whose send failed has returned 1, and there is still no last-sent file
C14_Witness ==
  /\ service["first"].pc = "returned"
  /\ service["first"].session = "refused"
  /\ service["first"].returned = 1
  /\ last_email_file = Absent


EmailStep == {"precheck", "main", "check", "send", "update"}

C16_State ==
  \A p \in Slots :
    LET r == service[p]
    IN r.script = "production_service" =>
         /\ r.pc \in EmailStep => r.analytics_result = 0
         /\ r.analytics_result = Pending =>
              /\ r.pc \in {"analytics", "raised"}
              /\ r.checks = 0
              /\ r.session = "none"
         /\ r.analytics_result \notin {Pending, 0} =>
              /\ r.pc = "returned"
              /\ r.returned = r.analytics_result
              /\ r.email_result = Pending
              /\ r.checks = 0
              /\ r.session = "none"
         /\ (r.analytics_result = 0 /\ r.pc = "returned") =>
              /\ r.returned = r.email_result
              /\ (r.session = "none" /\ missing_fields(email_config) = {})
                   => r.returned = 0

C16_Step ==
  \A p \in Slots :
    (/\ service'[p].script = "production_service"
     /\ service'[p].analytics_result # 0)
    => last_email_file' = last_email_file

\* C16: a run of production_service.main is in its email step only with an
\* analytics result of 0. A run whose analytics returned non-zero has made no
\* interval check and no send, changes the last-sent file in no step, and
\* returns the analytics result; a run whose analytics returned 0 returns the
\* result of the email step, which is 0 when the email was skipped because
\* the interval had not elapsed.
C16_AfterAnalytics == []C16_State /\ [][C16_Step]_vars

\* Analytics found no data and the run returned 1, with an email due
C16_Witness ==
  /\ service["first"].script = "production_service"
  /\ service["first"].pc = "returned"
  /\ service["first"].analytics_result = 1
  /\ service["first"].returned = 1
  /\ missing_fields(email_config) = {}
  /\ Due


\* C17: when runs that share LAST_EMAIL_FILE overlap, the interval check and
\* the timestamp update let at most one of them send within one
\* EMAIL_INTERVAL_HOURS window: no two runs have both sent successfully less
\* than EMAIL_INTERVAL_HOURS apart.
C17_OneSendPerWindow ==
  ~ \E i, j \in DOMAIN Successes :
      /\ i < j
      /\ Successes[j].at - Successes[i].at < email_config.EMAIL_INTERVAL_HOURS


\* The records of l that are observations of the world key, in order
ObservationsOf(l, key) ==
  SelectSeq(l, LAMBDA w : ~Skipped(w) /\ WorldId(w) = key)

SameOrderWithinWorlds ==
  \A w \in Records(config.DATA_LOCATION) :
    ~Skipped(w) =>
      ObservationsOf(input, WorldId(w)) = ObservationsOf(reordered, WorldId(w))

\* C15: the same records read in two orders end aggregate_world_data the same
\* way, and when it returns, every world has the same occupants_sum,
\* occurrences, max_occupants and min_occupants in both dicts; when the two
\* orders keep the order of each world's own records, every world has the
\* same accumulator in both, descriptive fields included.
C15_OrderIndependent ==
  (pc # "fold" /\ reordered_data # NoResult) =>
    /\ pc = reordered_data.pc
    /\ pc = "aggregated" =>
         /\ Keys(world_data) = Keys(reordered_data.world_data)
         /\ \A key \in Keys(world_data) :
              LET a == InfoOf(world_data, key)
                  b == InfoOf(reordered_data.world_data, key)
              IN /\ a.occupants_sum = b.occupants_sum
                 /\ a.occurrences = b.occurrences
                 /\ a.max_occupants = b.max_occupants
                 /\ a.min_occupants = b.min_occupants
                 /\ SameOrderWithinWorlds => a = b

\* Two worlds, three records read in another order that keeps each world's
\* own, and both calls returned
C15_Witness ==
  /\ pc = "aggregated"
  /\ reordered_data # NoResult
  /\ reordered # input
  /\ SameOrderWithinWorlds
  /\ Len(input) = MaxShuffled
  /\ Cardinality(Keys(world_data)) = 2
  /\ \E key \in Keys(world_data) : InfoOf(world_data, key).occurrences = 2

=============================================================================
